---- MODULE Spec2Model ----
(***************************************************************************)
(* Model of the two BlockStorageAdapter backends of Ark:                   *)
(*   package aws  (src/unnamed/part_000)                                   *)
(*   package gcp  (src/pkg/cloudprovider/gcp/block_storage_adapter.go)     *)
(*                                                                         *)
(* Go strings are TLA+ strings (Len, \o and SubSeq act on them as len, +   *)
(* and slicing do on Go strings).  A Go pointer or error is a sequence of  *)
(* length 0 (nil) or 1 (the value pointed to / the error message).  A Go   *)
(* map is a function whose domain is the set of keys; ranging over a map   *)
(* visits the keys in an arbitrary order.                                  *)
(*                                                                         *)
(* One adapter method runs at a time.  A method that makes one cloud call  *)
(* is one action; a method that makes several is one action per cloud      *)
(* call.  `calls` records the cloud calls the running method has issued,   *)
(* `ret` holds what it returned once pc = "done", and Return hands the     *)
(* result to the caller.                                                   *)
(***************************************************************************)
EXTENDS FiniteSets, Integers, Sequences, TLC

VARIABLES
    awsAdapter,   \* the aws blockStorageAdapter built by the factory, or Nil
    gcpAdapter,   \* the gcp blockStorageAdapter built by the factory, or Nil
    snapshots,    \* snapshot ids / names that exist at the providers
    op,           \* the method that is running ("none" when idle)
    args,         \* its arguments
    pc,           \* its position
    local,        \* its local variables
    calls,        \* the cloud / SDK calls it has issued so far
    ret           \* its return values (meaningful when pc = "done")

vars == <<awsAdapter, gcpAdapter, snapshots, op, args, pc, local, calls, ret>>

-----------------------------------------------------------------------------
(* Bounds *)

MaxSnapshots == 1      \* snapshots the providers hold at once
MaxVolumes == 2        \* volumes in one DescribeVolumes response
MaxTags == 2           \* keys in a tag / label map
MaxVolumeIDLen == 28   \* longest volume id given to the snapshot naming

-----------------------------------------------------------------------------
(* Values *)

Nil == <<>>
Ptr(v) == <<v>>
Deref(p) == p[1]

NoArgs == [none |-> TRUE]
NoLocal == [none |-> TRUE]

\* the zero values of every return position of the interface
ZeroRet == [adapter |-> Nil, id |-> "", volumeType |-> "", iops |-> Nil,
            ready |-> FALSE, ids |-> <<>>, err |-> Nil]

\* the error an SDK call returns when it fails
CallError(api) == Ptr("error returned by " \o api)

Call(api, req, ok, resp) == [api |-> api, req |-> req, ok |-> ok, resp |-> resp]

\* s contains sub as a substring
Contains(s, sub) ==
    \E i \in 1..(Len(s) - Len(sub) + 1) : SubSeq(s, i, i + Len(sub) - 1) = sub

\* the orders in which a range statement can visit the keys of a map
Orders(m) ==
    {o \in [1..Cardinality(DOMAIN m) -> DOMAIN m] :
        \A i, j \in DOMAIN o : i # j => o[i] # o[j]}

\* the sequences over S of length at most n
SeqsUpTo(S, n) == UNION {[1..k -> S] : k \in 0..n}

TagKeyList == <<"a", "b", "c", "d">>
TagKeys == {TagKeyList[i] : i \in 1..MaxTags}
TagValues == {"1", "2"}
TagMaps == UNION {[K -> TagValues] : K \in SUBSET TagKeys}

Regions == {"", "us-east-1"}
AvailabilityZones == {"", "us-east-1a", "us-east-1b"}
Projects == {"", "proj"}
Zones == {"", "us-central1-a"}

\* a method returns: its result is visible in the "done" state
Finish(r) ==
    /\ pc' = "done"
    /\ ret' = r

\* a method is invoked by the caller
Begin(name, a) ==
    /\ pc = "idle"
    /\ op' = name
    /\ args' = a

-----------------------------------------------------------------------------
(* package aws *)

AwsMissingRegion == "missing region in aws configuration in config file"
AwsMissingAZ == "missing availabilityZone in aws configuration in config file"

\* AwsMissingField without the test of availabilityZone
AwsMissingFieldRegionOnly(region, availabilityZone) ==
    IF region = "" THEN Ptr(AwsMissingRegion) ELSE Nil

\* the error of the first required field that is empty, Nil when none is
AwsMissingField(region, availabilityZone) ==
    IF region = "" THEN Ptr(AwsMissingRegion)
    ELSE IF availabilityZone = "" THEN Ptr(AwsMissingAZ)
    ELSE Nil

\* NewBlockStorageAdapter, up to the first SDK call
AwsNewBlockStorageAdapter ==
    \E region \in Regions, availabilityZone \in AvailabilityZones :
        /\ Begin("aws.NewBlockStorageAdapter",
                 [region |-> region, availabilityZone |-> availabilityZone])
        /\ calls' = <<>>
        /\ local' = NoLocal
        /\ IF AwsMissingField(region, availabilityZone) # Nil
             THEN Finish([ZeroRet EXCEPT !.err = AwsMissingField(region, availabilityZone)])
             ELSE /\ pc' = "aws.getSession"
                  /\ ret' = ZeroRet
        /\ UNCHANGED <<awsAdapter, gcpAdapter, snapshots>>

\* getSession: session.NewSession, then sess.Config.Credentials.Get
AwsGetSession ==
    /\ pc = "aws.getSession"
    /\ \E newSessionOk \in BOOLEAN, credentialsOk \in BOOLEAN :
        LET config == [region |-> args.region]
            c1 == Call("session.NewSession", config, newSessionOk, Nil)
            c2 == Call("Credentials.Get", config, credentialsOk, Nil)
        IN IF ~newSessionOk
             THEN /\ calls' = calls \o <<c1>>
                  /\ Finish([ZeroRet EXCEPT !.err = CallError("session.NewSession")])
           ELSE IF ~credentialsOk
             THEN /\ calls' = calls \o <<c1, c2>>
                  /\ Finish([ZeroRet EXCEPT !.err = CallError("Credentials.Get")])
           ELSE /\ calls' = calls \o <<c1, c2>>
                /\ pc' = "aws.describeAZ"
                /\ ret' = ret
    /\ UNCHANGED <<awsAdapter, gcpAdapter, snapshots, op, args, local>>

AwsZoneNotFound(az) == "availability zone \"" \o az \o "\" not found"

\* the availability zone check and the construction of the adapter
AwsDescribeAvailabilityZones ==
    /\ pc = "aws.describeAZ"
    /\ LET azReq == [ZoneNames |-> <<args.availabilityZone>>]
           adapter == [ec2 |-> [region |-> args.region], az |-> args.availabilityZone]
       IN \E ok \in BOOLEAN, found \in BOOLEAN :
            LET res == IF ok /\ found THEN <<args.availabilityZone>> ELSE <<>>
            IN /\ calls' = Append(calls, Call("ec2.DescribeAvailabilityZones", azReq, ok, res))
               /\ IF ~ok
                    THEN /\ Finish([ZeroRet EXCEPT
                                      !.err = CallError("ec2.DescribeAvailabilityZones")])
                         /\ UNCHANGED awsAdapter
                  ELSE IF Len(res) = 0
                    THEN /\ Finish([ZeroRet EXCEPT
                                      !.err = Ptr(AwsZoneNotFound(args.availabilityZone))])
                         /\ UNCHANGED awsAdapter
                  ELSE /\ Finish([ZeroRet EXCEPT !.adapter = Ptr(adapter)])
                       /\ awsAdapter' = Ptr(adapter)
    /\ UNCHANGED <<gcpAdapter, snapshots, op, args, local>>

\* iopsVolumeTypes is the set of EBS volume types for which IOPS is passed on
iopsVolumeTypes == {"io1"}

AwsVolumeTypes == {"gp2", "io1"}
AwsIops == {Nil, Ptr(0), Ptr(100)}
AwsVolumeIDs == {"vol-123"}
AwsSnapshotIDs == {"snap-1", "snap-2"}

\* a volume of a DescribeVolumes response
AwsVolumes ==
    [VolumeType : {Nil} \cup {Ptr(t) : t \in AwsVolumeTypes},
     Iops : {Nil, Ptr(100)},
     State : {"available", "creating"}]

\* AwsCreateVolumeInput without the test of the volume type
AwsCreateVolumeInputAnyType(az, snapshotID, volumeType, iops) ==
    [SnapshotId |-> snapshotID,
     AvailabilityZone |-> az,
     VolumeType |-> volumeType,
     Iops |-> iops]

\* the CreateVolumeInput that CreateVolumeFromSnapshot builds
AwsCreateVolumeInput(az, snapshotID, volumeType, iops) ==
    [SnapshotId |-> snapshotID,
     AvailabilityZone |-> az,
     VolumeType |-> volumeType,
     Iops |-> IF volumeType \in iopsVolumeTypes /\ iops # Nil THEN iops ELSE Nil]

AwsCreateVolumeFromSnapshot ==
    /\ awsAdapter # Nil
    /\ \E snapshotID \in AwsSnapshotIDs, volumeType \in AwsVolumeTypes, iops \in AwsIops :
        LET req == AwsCreateVolumeInput(Deref(awsAdapter).az, snapshotID, volumeType, iops)
        IN /\ Begin("aws.CreateVolumeFromSnapshot",
                    [snapshotID |-> snapshotID, volumeType |-> volumeType, iops |-> iops])
           /\ \E ok \in {FALSE} \cup {snapshotID \in snapshots} :
                LET res == [VolumeId |-> "vol-new"]
                IN /\ calls' = <<Call("ec2.CreateVolume", req, ok, IF ok THEN Ptr(res) ELSE Nil)>>
                   /\ IF ~ok
                        THEN Finish([ZeroRet EXCEPT !.err = CallError("ec2.CreateVolume")])
                        ELSE Finish([ZeroRet EXCEPT !.id = res.VolumeId])
    /\ local' = NoLocal
    /\ UNCHANGED <<awsAdapter, gcpAdapter, snapshots>>

AwsExpectedOne(volumeID, n) ==
    "Expected one volume from DescribeVolumes for volume ID " \o volumeID
        \o ", got " \o ToString(n)

\* AwsGetVolumeInfoResult that only rejects an empty response
AwsGetVolumeInfoResultFirstOfMany(volumeID, ok, volumes) ==
    IF ~ok
      THEN [ZeroRet EXCEPT !.err = CallError("ec2.DescribeVolumes")]
    ELSE IF Len(volumes) = 0
      THEN [ZeroRet EXCEPT !.err = Ptr(AwsExpectedOne(volumeID, Len(volumes)))]
    ELSE LET vol == volumes[1]
             volumeType == IF vol.VolumeType # Nil THEN Deref(vol.VolumeType) ELSE ""
             iops == IF volumeType \in iopsVolumeTypes /\ vol.Iops # Nil
                       THEN vol.Iops ELSE Nil
         IN [ZeroRet EXCEPT !.volumeType = volumeType, !.iops = iops]

\* what GetVolumeInfo returns for the outcome of its DescribeVolumes call
AwsGetVolumeInfoResult(volumeID, ok, volumes) ==
    IF ~ok
      THEN [ZeroRet EXCEPT !.err = CallError("ec2.DescribeVolumes")]
    ELSE IF Len(volumes) # 1
      THEN [ZeroRet EXCEPT !.err = Ptr(AwsExpectedOne(volumeID, Len(volumes)))]
    ELSE LET vol == volumes[1]
             volumeType == IF vol.VolumeType # Nil THEN Deref(vol.VolumeType) ELSE ""
             iops == IF volumeType \in iopsVolumeTypes /\ vol.Iops # Nil
                       THEN vol.Iops ELSE Nil
         IN [ZeroRet EXCEPT !.volumeType = volumeType, !.iops = iops]

AwsGetVolumeInfo ==
    /\ awsAdapter # Nil
    /\ \E volumeID \in AwsVolumeIDs, ok \in BOOLEAN,
          volumes \in SeqsUpTo(AwsVolumes, MaxVolumes) :
        LET req == [VolumeIds |-> <<volumeID>>]
        IN /\ Begin("aws.GetVolumeInfo", [volumeID |-> volumeID])
           /\ calls' = <<Call("ec2.DescribeVolumes", req, ok,
                              IF ok THEN volumes ELSE <<>>)>>
           /\ Finish(AwsGetVolumeInfoResult(volumeID, ok, volumes))
    /\ local' = NoLocal
    /\ UNCHANGED <<awsAdapter, gcpAdapter, snapshots>>

\* what IsVolumeReady returns for the outcome of its DescribeVolumes call
AwsIsVolumeReadyResult(volumeID, ok, volumes) ==
    IF ~ok
      THEN [ZeroRet EXCEPT !.err = CallError("ec2.DescribeVolumes")]
    ELSE IF Len(volumes) # 1
      THEN [ZeroRet EXCEPT !.err = Ptr(AwsExpectedOne(volumeID, Len(volumes)))]
    ELSE [ZeroRet EXCEPT !.ready = (volumes[1].State = "available")]

AwsIsVolumeReady ==
    /\ awsAdapter # Nil
    /\ \E volumeID \in AwsVolumeIDs, ok \in BOOLEAN,
          volumes \in SeqsUpTo(AwsVolumes, MaxVolumes) :
        LET req == [VolumeIds |-> <<volumeID>>]
        IN /\ Begin("aws.IsVolumeReady", [volumeID |-> volumeID])
           /\ calls' = <<Call("ec2.DescribeVolumes", req, ok,
                              IF ok THEN volumes ELSE <<>>)>>
           /\ Finish(AwsIsVolumeReadyResult(volumeID, ok, volumes))
    /\ local' = NoLocal
    /\ UNCHANGED <<awsAdapter, gcpAdapter, snapshots>>

\* the range variable v of ListSnapshots' loop after the i-th iteration; the
\* loop has one variable v for all of its iterations
AwsRangeVarV(tagFilters, order, i) == tagFilters[order[i]]

\* the DescribeSnapshotsInput as the SDK reads it when the call is made: every
\* filter holds &v, the address of the loop's one variable, so that each
\* filter's value is read after the loop has ended
AwsDescribeSnapshotsInput(tagFilters, order) ==
    [Filters |->
        [i \in 1..Len(order) |->
            [Name |-> order[i],
             Values |-> <<AwsRangeVarV(tagFilters, order, Len(order))>>]]]

\* the snapshot ids a list call can report: the existing ones, in some order
ListedSnapshots == {ids \in SeqsUpTo(snapshots, Cardinality(snapshots)) :
                       \A i, j \in DOMAIN ids : i # j => ids[i] # ids[j]}

AwsListSnapshots ==
    /\ awsAdapter # Nil
    /\ \E tagFilters \in TagMaps :
        \E order \in Orders(tagFilters), ok \in BOOLEAN, ids \in ListedSnapshots :
            LET req == AwsDescribeSnapshotsInput(tagFilters, order)
            IN /\ Begin("aws.ListSnapshots", [tagFilters |-> tagFilters])
               /\ calls' = <<Call("ec2.DescribeSnapshots", req, ok,
                                  IF ok THEN ids ELSE <<>>)>>
               /\ IF ~ok
                    THEN Finish([ZeroRet EXCEPT !.err = CallError("ec2.DescribeSnapshots")])
                    ELSE Finish([ZeroRet EXCEPT !.ids = ids])
    /\ local' = NoLocal
    /\ UNCHANGED <<awsAdapter, gcpAdapter, snapshots>>

\* CreateSnapshot, first step: the snapshot request
AwsCreateSnapshot ==
    /\ awsAdapter # Nil
    /\ \E volumeID \in AwsVolumeIDs, tags \in TagMaps :
        LET req == [VolumeId |-> volumeID]
            fresh == IF Cardinality(snapshots) < MaxSnapshots
                       THEN AwsSnapshotIDs \ snapshots ELSE {}
        IN /\ Begin("aws.CreateSnapshot", [volumeID |-> volumeID, tags |-> tags])
           /\ \/ /\ calls' = <<Call("ec2.CreateSnapshot", req, FALSE, Nil)>>
                 /\ Finish([ZeroRet EXCEPT !.err = CallError("ec2.CreateSnapshot")])
                 /\ local' = NoLocal
                 /\ UNCHANGED snapshots
              \/ \E id \in fresh :
                   LET res == [SnapshotId |-> id]
                   IN /\ calls' = <<Call("ec2.CreateSnapshot", req, TRUE, Ptr(res))>>
                      /\ snapshots' = snapshots \cup {id}
                      /\ local' = [res |-> res]
                      /\ pc' = "aws.createTags"
                      /\ ret' = ZeroRet
    /\ UNCHANGED <<awsAdapter, gcpAdapter>>

\* the CreateTagsInput of CreateSnapshot; key and val are copied per iteration
AwsCreateTagsInput(snapshotId, tags, order) ==
    [Resources |-> <<snapshotId>>,
     Tags |-> [i \in 1..Len(order) |-> [Key |-> order[i], Value |-> tags[order[i]]]]]

\* AwsCreateSnapshotResult that drops the error of CreateTags
AwsCreateSnapshotResultErrorDropped(snapshotId, ok) ==
    [ZeroRet EXCEPT !.id = snapshotId]

\* what CreateSnapshot returns after its CreateTags call
AwsCreateSnapshotResult(snapshotId, ok) ==
    [ZeroRet EXCEPT !.id = snapshotId,
                    !.err = IF ok THEN Nil ELSE CallError("ec2.CreateTags")]

\* CreateSnapshot, second step: the tags
AwsCreateTags ==
    /\ pc = "aws.createTags"
    /\ \E order \in Orders(args.tags), ok \in BOOLEAN :
        LET tagsReq == AwsCreateTagsInput(local.res.SnapshotId, args.tags, order)
        IN /\ calls' = Append(calls, Call("ec2.CreateTags", tagsReq, ok, Nil))
           /\ Finish(AwsCreateSnapshotResult(local.res.SnapshotId, ok))
    /\ UNCHANGED <<awsAdapter, gcpAdapter, snapshots, op, args, local>>

AwsDeleteSnapshot ==
    /\ awsAdapter # Nil
    /\ \E snapshotID \in AwsSnapshotIDs :
        \E ok \in {FALSE} \cup {snapshotID \in snapshots} :
            LET req == [SnapshotId |-> snapshotID]
            IN /\ Begin("aws.DeleteSnapshot", [snapshotID |-> snapshotID])
               /\ calls' = <<Call("ec2.DeleteSnapshot", req, ok, Nil)>>
               /\ snapshots' = IF ok THEN snapshots \ {snapshotID} ELSE snapshots
               /\ Finish([ZeroRet EXCEPT
                            !.err = IF ok THEN Nil ELSE CallError("ec2.DeleteSnapshot")])
    /\ local' = NoLocal
    /\ UNCHANGED <<awsAdapter, gcpAdapter>>

-----------------------------------------------------------------------------
(* package gcp *)

GcpMissingProject == "missing project in gcp configuration in config file"
GcpMissingZone == "missing zone in gcp configuration in config file"

\* the error of the first required field that is empty, Nil when none is
GcpMissingField(project, zone) ==
    IF project = "" THEN Ptr(GcpMissingProject)
    ELSE IF zone = "" THEN Ptr(GcpMissingZone)
    ELSE Nil

\* NewBlockStorageAdapter, up to the first SDK call
GcpNewBlockStorageAdapter ==
    \E project \in Projects, zone \in Zones :
        /\ Begin("gcp.NewBlockStorageAdapter", [project |-> project, zone |-> zone])
        /\ calls' = <<>>
        /\ local' = NoLocal
        /\ IF GcpMissingField(project, zone) # Nil
             THEN Finish([ZeroRet EXCEPT !.err = GcpMissingField(project, zone)])
             ELSE /\ pc' = "gcp.newClient"
                  /\ ret' = ZeroRet
        /\ UNCHANGED <<awsAdapter, gcpAdapter, snapshots>>

\* google.DefaultClient, then compute.New
GcpNewClient ==
    /\ pc = "gcp.newClient"
    /\ \E defaultClientOk \in BOOLEAN, computeNewOk \in BOOLEAN :
        LET c1 == Call("google.DefaultClient", [scope |-> "compute"], defaultClientOk, Nil)
            c2 == Call("compute.New", [client |-> "default"], computeNewOk, Nil)
        IN IF ~defaultClientOk
             THEN /\ calls' = calls \o <<c1>>
                  /\ Finish([ZeroRet EXCEPT !.err = CallError("google.DefaultClient")])
           ELSE IF ~computeNewOk
             THEN /\ calls' = calls \o <<c1, c2>>
                  /\ Finish([ZeroRet EXCEPT !.err = CallError("compute.New")])
           ELSE /\ calls' = calls \o <<c1, c2>>
                /\ pc' = "gcp.zonesGet"
                /\ ret' = ret
    /\ UNCHANGED <<awsAdapter, gcpAdapter, snapshots, op, args, local>>

\* the arguments of the format are in the order the code passes them
GcpZoneNotFound(project, zone) ==
    "zone \"" \o project \o "\" not found for project \"" \o zone \o "\""

\* the zone check and the construction of the adapter
GcpZonesGet ==
    /\ pc = "gcp.zonesGet"
    /\ LET req == [project |-> args.project, zone |-> args.zone]
           adapter == [gce |-> "compute.Service", project |-> args.project,
                       zone |-> args.zone]
       IN \E ok \in BOOLEAN, found \in BOOLEAN :
            LET res == IF ok /\ found THEN Ptr([Name |-> args.zone]) ELSE Nil
            IN /\ calls' = Append(calls, Call("Zones.Get", req, ok, res))
               /\ IF ~ok
                    THEN /\ Finish([ZeroRet EXCEPT !.err = CallError("Zones.Get")])
                         /\ UNCHANGED gcpAdapter
                  ELSE IF res = Nil
                    THEN /\ Finish([ZeroRet EXCEPT
                                      !.err = Ptr(GcpZoneNotFound(args.project, args.zone))])
                         /\ UNCHANGED gcpAdapter
                  ELSE /\ Finish([ZeroRet EXCEPT !.adapter = Ptr(adapter)])
                       /\ gcpAdapter' = Ptr(adapter)
    /\ UNCHANGED <<awsAdapter, snapshots, op, args, local>>

\* the strings uuid.NewV4().String() can return
UUIDs == {"11111111-1111-4111-8111-111111111111",
          "22222222-2222-4222-9222-222222222222"}

\* SnapshotName with the suffix left out of the length test
SnapshotNameSuffixUncounted(volumeID, uuid) ==
    LET suffix == "-" \o uuid
    IN IF Len(volumeID) <= 63
         THEN volumeID \o suffix
         ELSE SubSeq(volumeID, 1, 63 - Len(suffix)) \o suffix

\* the name CreateSnapshot gives the snapshot of volumeID
SnapshotName(volumeID, uuid) ==
    LET suffix == "-" \o uuid
    IN IF Len(volumeID) <= 63 - Len(suffix)
         THEN volumeID \o suffix
         ELSE SubSeq(volumeID, 1, 63 - Len(suffix)) \o suffix

GcpVolumeIDs == {"disk-1", "pvc-0123456789abcdefghijklmnop"}
GcpVolumeTypes == {"pd-standard", "pd-ssd"}
GcpSnapshotNames == {SnapshotName(v, u) : v \in GcpVolumeIDs, u \in UUIDs}
Fingerprints == {"fp1", "fp2"}

\* GcpCreateVolumeFromSnapshot without the test of the error of Snapshots.Get
GcpCreateVolumeFromSnapshotErrorUnchecked ==
    /\ gcpAdapter # Nil
    /\ \E snapshotID \in GcpSnapshotNames, volumeType \in GcpVolumeTypes,
          iops \in {Nil, Ptr(100)} :
        LET req == [project |-> Deref(gcpAdapter).project, snapshot |-> snapshotID]
            res == [Name |-> snapshotID, SelfLink |-> "selfLink/" \o snapshotID]
        IN /\ Begin("gcp.CreateVolumeFromSnapshot",
                    [snapshotID |-> snapshotID, volumeType |-> volumeType, iops |-> iops])
           /\ \E ok \in {FALSE} \cup {snapshotID \in snapshots} :
                /\ calls' = <<Call("Snapshots.Get", req, ok, IF ok THEN Ptr(res) ELSE Nil)>>
                /\ pc' = "gcp.disksInsert"
                /\ local' = [res |-> IF ok THEN res ELSE [Name |-> "", SelfLink |-> ""]]
                /\ ret' = ZeroRet
    /\ UNCHANGED <<awsAdapter, gcpAdapter, snapshots>>

\* CreateVolumeFromSnapshot, first step: the snapshot is resolved
GcpCreateVolumeFromSnapshot ==
    /\ gcpAdapter # Nil
    /\ \E snapshotID \in GcpSnapshotNames, volumeType \in GcpVolumeTypes,
          iops \in {Nil, Ptr(100)} :
        LET req == [project |-> Deref(gcpAdapter).project, snapshot |-> snapshotID]
            res == [Name |-> snapshotID, SelfLink |-> "selfLink/" \o snapshotID]
        IN /\ Begin("gcp.CreateVolumeFromSnapshot",
                    [snapshotID |-> snapshotID, volumeType |-> volumeType, iops |-> iops])
           /\ \E ok \in {FALSE} \cup {snapshotID \in snapshots} :
                /\ calls' = <<Call("Snapshots.Get", req, ok, IF ok THEN Ptr(res) ELSE Nil)>>
                /\ IF ~ok
                     THEN /\ Finish([ZeroRet EXCEPT !.err = CallError("Snapshots.Get")])
                          /\ local' = NoLocal
                     ELSE /\ pc' = "gcp.disksInsert"
                          /\ local' = [res |-> res]
                          /\ ret' = ZeroRet
    /\ UNCHANGED <<awsAdapter, gcpAdapter, snapshots>>

\* the Disk that CreateVolumeFromSnapshot inserts
GcpDisk(uuid, res, volumeType) ==
    [Name |-> "restore-" \o uuid, SourceSnapshot |-> res.SelfLink, Type |-> volumeType]

\* CreateVolumeFromSnapshot, second step: the disk is inserted
GcpDisksInsert ==
    /\ pc = "gcp.disksInsert"
    /\ \E uuid \in UUIDs, ok \in BOOLEAN :
        LET disk == GcpDisk(uuid, local.res, args.volumeType)
            req == [project |-> Deref(gcpAdapter).project, zone |-> Deref(gcpAdapter).zone,
                    disk |-> disk]
        IN /\ calls' = Append(calls, Call("Disks.Insert", req, ok, Nil))
           /\ IF ~ok
                THEN Finish([ZeroRet EXCEPT !.err = CallError("Disks.Insert")])
                ELSE Finish([ZeroRet EXCEPT !.id = disk.Name])
    /\ UNCHANGED <<awsAdapter, gcpAdapter, snapshots, op, args, local>>

\* a disk of a Disks.Get response
GcpDisks == [Type : GcpVolumeTypes, Status : {"READY", "RESTORING", "CREATING"}]

GcpDisksGetRequest(volumeID) ==
    [project |-> Deref(gcpAdapter).project, zone |-> Deref(gcpAdapter).zone,
     disk |-> volumeID]

GcpGetVolumeInfo ==
    /\ gcpAdapter # Nil
    /\ \E volumeID \in GcpVolumeIDs, ok \in BOOLEAN, res \in GcpDisks :
        /\ Begin("gcp.GetVolumeInfo", [volumeID |-> volumeID])
        /\ calls' = <<Call("Disks.Get", GcpDisksGetRequest(volumeID), ok,
                           IF ok THEN Ptr(res) ELSE Nil)>>
        /\ IF ~ok
             THEN Finish([ZeroRet EXCEPT !.err = CallError("Disks.Get")])
             ELSE Finish([ZeroRet EXCEPT !.volumeType = res.Type])
    /\ local' = NoLocal
    /\ UNCHANGED <<awsAdapter, gcpAdapter, snapshots>>

GcpIsVolumeReady ==
    /\ gcpAdapter # Nil
    /\ \E volumeID \in GcpVolumeIDs, ok \in BOOLEAN, disk \in GcpDisks :
        /\ Begin("gcp.IsVolumeReady", [volumeID |-> volumeID])
        /\ calls' = <<Call("Disks.Get", GcpDisksGetRequest(volumeID), ok,
                           IF ok THEN Ptr(disk) ELSE Nil)>>
        /\ IF ~ok
             THEN Finish([ZeroRet EXCEPT !.err = CallError("Disks.Get")])
             ELSE Finish([ZeroRet EXCEPT !.ready = (disk.Status = "READY")])
    /\ local' = NoLocal
    /\ UNCHANGED <<awsAdapter, gcpAdapter, snapshots>>

\* strings.Join
RECURSIVE Join(_, _)
Join(elems, sep) ==
    IF Len(elems) = 0 THEN ""
    ELSE IF Len(elems) = 1 THEN elems[1]
    ELSE elems[1] \o sep \o Join(Tail(elems), sep)

\* GcpFilter with parentheses around a single clause too
GcpFilterAlwaysParenthesized(tagFilters, order) ==
    LET subFilters == [i \in 1..Len(order) |->
                          "(" \o order[i] \o " eq " \o tagFilters[order[i]] \o ")"]
    IN Join(subFilters, " ")

\* the filter expression ListSnapshots builds when its range statement visits
\* the keys of tagFilters in the given order
GcpFilter(tagFilters, order) ==
    LET useParentheses == Cardinality(DOMAIN tagFilters) > 1
        subFilters == [i \in 1..Len(order) |->
                          LET fs == order[i] \o " eq " \o tagFilters[order[i]]
                          IN IF useParentheses THEN "(" \o fs \o ")" ELSE fs]
    IN Join(subFilters, " ")

GcpListSnapshots ==
    /\ gcpAdapter # Nil
    /\ \E tagFilters \in TagMaps :
        \E order \in Orders(tagFilters), ok \in BOOLEAN, items \in ListedSnapshots :
            LET req == [project |-> Deref(gcpAdapter).project,
                        filter |-> GcpFilter(tagFilters, order)]
            IN /\ Begin("gcp.ListSnapshots", [tagFilters |-> tagFilters])
               /\ calls' = <<Call("Snapshots.List", req, ok, IF ok THEN items ELSE <<>>)>>
               /\ IF ~ok
                    THEN Finish([ZeroRet EXCEPT !.err = CallError("Snapshots.List")])
                    ELSE Finish([ZeroRet EXCEPT !.ids = items])
    /\ local' = NoLocal
    /\ UNCHANGED <<awsAdapter, gcpAdapter, snapshots>>

\* wait.Poll(1*time.Second, 30*time.Second, ...), in seconds
PollInterval == 1
PollTimeout == 30

\* CreateSnapshot, first step: the name and the snapshot request
GcpCreateSnapshot ==
    /\ gcpAdapter # Nil
    /\ \E volumeID \in GcpVolumeIDs, tags \in TagMaps, uuid \in UUIDs :
        LET gceSnap == [Name |-> SnapshotName(volumeID, uuid), LabelFingerprint |-> ""]
            req == [project |-> Deref(gcpAdapter).project, zone |-> Deref(gcpAdapter).zone,
                    disk |-> volumeID, snapshot |-> gceSnap]
        IN /\ Begin("gcp.CreateSnapshot", [volumeID |-> volumeID, tags |-> tags])
           /\ \E ok \in {FALSE} \cup {/\ Cardinality(snapshots) < MaxSnapshots
                                      /\ gceSnap.Name \notin snapshots} :
                /\ calls' = <<Call("Disks.CreateSnapshot", req, ok, Nil)>>
                /\ IF ~ok
                     THEN /\ Finish([ZeroRet EXCEPT !.err = CallError("Disks.CreateSnapshot")])
                          /\ local' = NoLocal
                          /\ UNCHANGED snapshots
                     ELSE /\ snapshots' = snapshots \cup {gceSnap.Name}
                          /\ local' = [gceSnap |-> gceSnap, err |-> Nil, elapsed |-> 0]
                          /\ pc' = "gcp.poll"
                          /\ ret' = ZeroRet
    /\ UNCHANGED <<awsAdapter, gcpAdapter>>

\* a Snapshots.Get of the poll loop, made `at` seconds after the loop began
PollCall(req, ok, resp, at) == ("at" :> at) @@ Call("Snapshots.Get", req, ok, resp)

\* CreateSnapshot, second step: one attempt of the poll loop.  wait.Poll runs
\* the condition once per interval and a last time when the timeout closes its
\* channel; it returns ErrWaitTimeout when that last attempt fails too.
GcpPoll ==
    /\ pc = "gcp.poll"
    /\ \E ok \in BOOLEAN, fp \in Fingerprints :
        LET at == local.elapsed + PollInterval
            req == [project |-> Deref(gcpAdapter).project, snapshot |-> local.gceSnap.Name]
            res == [Name |-> local.gceSnap.Name, LabelFingerprint |-> fp]
            pollErr == IF ~ok /\ at >= PollTimeout
                         THEN Ptr("timed out waiting for the condition") ELSE Nil
        IN /\ ok \/ fp = "fp1"
           /\ calls' = Append(calls, PollCall(req, ok, IF ok THEN Ptr(res) ELSE Nil, at))
           /\ IF ok
                THEN /\ local' = [local EXCEPT !.gceSnap = res, !.elapsed = at]
                     /\ pc' = "gcp.setLabels"
                     /\ ret' = ret
              ELSE IF pollErr # Nil
                THEN /\ local' = [local EXCEPT !.elapsed = at]
                     /\ Finish([ZeroRet EXCEPT !.err = local.err])
              ELSE /\ local' = [local EXCEPT !.elapsed = at]
                   /\ pc' = "gcp.poll"
                   /\ ret' = ret
    /\ UNCHANGED <<awsAdapter, gcpAdapter, snapshots, op, args>>

\* GcpSetLabelsRequest with the fingerprint of the snapshot as it was requested
GcpSetLabelsRequestStaleFingerprint(tags, gceSnap) ==
    [Labels |-> tags, LabelFingerprint |-> ""]

\* the GlobalSetLabelsRequest of CreateSnapshot
GcpSetLabelsRequest(tags, gceSnap) ==
    [Labels |-> tags, LabelFingerprint |-> gceSnap.LabelFingerprint]

\* what CreateSnapshot returns after its SetLabels call
GcpCreateSnapshotResult(gceSnap, ok) ==
    IF ~ok
      THEN [ZeroRet EXCEPT !.err = CallError("Snapshots.SetLabels")]
      ELSE [ZeroRet EXCEPT !.id = gceSnap.Name]

\* CreateSnapshot, third step: the labels
GcpSetLabels ==
    /\ pc = "gcp.setLabels"
    /\ \E ok \in BOOLEAN :
        LET labels == GcpSetLabelsRequest(args.tags, local.gceSnap)
            req == [project |-> Deref(gcpAdapter).project,
                    snapshot |-> local.gceSnap.Name, labels |-> labels]
        IN /\ calls' = Append(calls, Call("Snapshots.SetLabels", req, ok, Nil))
           /\ Finish(GcpCreateSnapshotResult(local.gceSnap, ok))
    /\ UNCHANGED <<awsAdapter, gcpAdapter, snapshots, op, args, local>>

GcpDeleteSnapshot ==
    /\ gcpAdapter # Nil
    /\ \E snapshotID \in GcpSnapshotNames :
        \E ok \in {FALSE} \cup {snapshotID \in snapshots} :
            LET req == [project |-> Deref(gcpAdapter).project, snapshot |-> snapshotID]
            IN /\ Begin("gcp.DeleteSnapshot", [snapshotID |-> snapshotID])
               /\ calls' = <<Call("Snapshots.Delete", req, ok, Nil)>>
               /\ snapshots' = IF ok THEN snapshots \ {snapshotID} ELSE snapshots
               /\ Finish([ZeroRet EXCEPT
                            !.err = IF ok THEN Nil ELSE CallError("Snapshots.Delete")])
    /\ local' = NoLocal
    /\ UNCHANGED <<awsAdapter, gcpAdapter>>

-----------------------------------------------------------------------------

\* the caller takes the result
Return ==
    /\ pc = "done"
    /\ pc' = "idle"
    /\ op' = "none"
    /\ args' = NoArgs
    /\ local' = NoLocal
    /\ calls' = <<>>
    /\ ret' = ZeroRet
    /\ UNCHANGED <<awsAdapter, gcpAdapter, snapshots>>

Init ==
    /\ awsAdapter = Nil
    /\ gcpAdapter = Nil
    /\ snapshots = {}
    /\ op = "none"
    /\ args = NoArgs
    /\ pc = "idle"
    /\ local = NoLocal
    /\ calls = <<>>
    /\ ret = ZeroRet

Next ==
    \/ AwsNewBlockStorageAdapter
    \/ AwsGetSession
    \/ AwsDescribeAvailabilityZones
    \/ AwsCreateVolumeFromSnapshot
    \/ AwsGetVolumeInfo
    \/ AwsIsVolumeReady
    \/ AwsListSnapshots
    \/ AwsCreateSnapshot
    \/ AwsCreateTags
    \/ AwsDeleteSnapshot
    \/ GcpNewBlockStorageAdapter
    \/ GcpNewClient
    \/ GcpZonesGet
    \/ GcpCreateVolumeFromSnapshot
    \/ GcpDisksInsert
    \/ GcpGetVolumeInfo
    \/ GcpIsVolumeReady
    \/ GcpListSnapshots
    \/ GcpCreateSnapshot
    \/ GcpPoll
    \/ GcpSetLabels
    \/ GcpDeleteSnapshot
    \/ Return

Spec == Init /\ [][Next]_vars

\* the handlers' own steps are taken as long as a method is running
FairSpec == Spec /\ WF_vars(GcpPoll) /\ WF_vars(GcpSetLabels)

-----------------------------------------------------------------------------
(* The snapshot naming of gcp CreateSnapshot on its own, over volume ids of *)
(* every length up to MaxVolumeIDLen.                                       *)

NameAlphabet == <<"d", "i", "s", "k", "-", "0", "1">>

\* a volume id of n characters; p shifts the characters it is made of
RECURSIVE VolumeIDOfLen(_, _)
VolumeIDOfLen(n, p) ==
    IF n = 0 THEN ""
    ELSE VolumeIDOfLen(n - 1, p) \o NameAlphabet[((n + p) % Len(NameAlphabet)) + 1]

NameVolumeIDs == {VolumeIDOfLen(n, p) : n \in 0..MaxVolumeIDLen, p \in 0..1}

NameInit ==
    /\ awsAdapter = Nil
    /\ gcpAdapter = Nil
    /\ snapshots = {}
    /\ op = "gcp.snapshotName"
    /\ args \in [volumeID : NameVolumeIDs, uuid : UUIDs]
    /\ pc = "name"
    /\ local = NoLocal
    /\ calls = <<>>
    /\ ret = ZeroRet

NameApply ==
    /\ pc = "name"
    /\ Finish([ZeroRet EXCEPT !.id = SnapshotName(args.volumeID, args.uuid)])
    /\ UNCHANGED <<awsAdapter, gcpAdapter, snapshots, op, args, local, calls>>

NameNext == NameApply

NameSpec == NameInit /\ [][NameNext]_vars

-----------------------------------------------------------------------------
(* Properties *)

Done(name) == op = name /\ pc = "done"

\* a Snapshots.Get made by the poll loop of gcp CreateSnapshot
IsPoll(c) == c.api = "Snapshots.Get" /\ "at" \in DOMAIN c

\* C1: whenever gcp CreateSnapshot returns a nil error, a SetLabels call for
\* the returned snapshot name was issued and succeeded; in particular a poll
\* loop whose every Get failed does not end in a nil error.
C1_SuccessMeansLabeled ==
    (Done("gcp.CreateSnapshot") /\ ret.err = Nil) =>
        \E i \in DOMAIN calls :
            /\ calls[i].api = "Snapshots.SetLabels"
            /\ calls[i].ok
            /\ calls[i].req.snapshot = ret.id

\* C2: the snapshot name is the volume id, cut to its first 63 - S characters
\* when it is longer than that, followed by the whole suffix "-<uuid>" of
\* length S; its length is between 1 and 63.
C2_SnapshotName ==
    Done("gcp.snapshotName") =>
        LET v == args.volumeID
            suffix == "-" \o args.uuid
            S == Len(suffix)
            name == ret.id
            kept == IF Len(v) <= 63 - S THEN Len(v) ELSE 63 - S
        IN /\ Len(name) = kept + S
           /\ \A i \in 1..kept : SubSeq(name, i, i) = SubSeq(v, i, i)
           /\ SubSeq(name, Len(name) - S + 1, Len(name)) = suffix
           /\ Len(name) >= 1
           /\ Len(name) <= 63

C2_Truncated ==
    /\ Done("gcp.snapshotName")
    /\ Len(args.volumeID) > 63 - Len("-" \o args.uuid)
    /\ Len(ret.id) = 63

AB12 == ("a" :> "1") @@ ("b" :> "2")

\* the filter string gcp ListSnapshots sent to the provider
SentFilter == calls[1].req.filter

\* C3 as stated: one filter {k: v} gives "k eq v"; the filters {a: 1, b: 2}
\* give exactly "(a eq 1) (b eq 2)" on every call.
C3_FilterOneString ==
    Done("gcp.ListSnapshots") =>
        LET m == args.tagFilters
        IN /\ \A k \in DOMAIN m :
                DOMAIN m = {k} => SentFilter = k \o " eq " \o m[k]
           /\ m = AB12 => SentFilter = "(a eq 1) (b eq 2)"

\* C3, amended: one filter {k: v} gives "k eq v"; with more than one filter
\* the string consists of the parenthesized clauses, each pair's clause once,
\* joined by single spaces, in the order the map was visited; the filters
\* {a: 1, b: 2} give "(a eq 1) (b eq 2)" or "(b eq 2) (a eq 1)".
C3_FilterAnyOrder ==
    Done("gcp.ListSnapshots") =>
        LET m == args.tagFilters
            n == Cardinality(DOMAIN m)
            clause(k) == "(" \o k \o " eq " \o m[k] \o ")"
        IN /\ \A k \in DOMAIN m :
                DOMAIN m = {k} => SentFilter = k \o " eq " \o m[k]
           /\ n > 1 =>
                \E o \in Orders(m) :
                    \A i \in 1..n :
                        LET from == (i - 1) * (Len(clause(o[1])) + 1) + 1
                        IN /\ Len(clause(o[i])) = Len(clause(o[1]))
                           /\ SubSeq(SentFilter, from, from + Len(clause(o[i])) - 1)
                                 = clause(o[i])
                           /\ IF i < n
                                THEN SubSeq(SentFilter, from + Len(clause(o[i])),
                                            from + Len(clause(o[i]))) = " "
                                ELSE Len(SentFilter) = from + Len(clause(o[i])) - 1
           /\ m = AB12 => SentFilter \in {"(a eq 1) (b eq 2)", "(b eq 2) (a eq 1)"}

C3_ReverseOrder ==
    /\ Done("gcp.ListSnapshots")
    /\ args.tagFilters = AB12
    /\ SentFilter = "(b eq 2) (a eq 1)"

\* C4: the CreateVolume request of aws CreateVolumeFromSnapshot carries IOPS
\* (the given value) exactly when the volume type is in iopsVolumeTypes and
\* iops is non-nil, and always carries the given snapshot id, the given
\* volume type and the adapter's availability zone.
C4_IopsOnlyForIopsTypes ==
    Done("aws.CreateVolumeFromSnapshot") =>
        LET req == calls[1].req
        IN /\ Len(calls) = 1
           /\ calls[1].api = "ec2.CreateVolume"
           /\ (req.Iops # Nil) <=> (args.volumeType \in iopsVolumeTypes /\ args.iops # Nil)
           /\ req.Iops # Nil => req.Iops = args.iops
           /\ req.SnapshotId = args.snapshotID
           /\ req.VolumeType = args.volumeType
           /\ req.AvailabilityZone = Deref(awsAdapter).az

C4_IopsOmitted ==
    /\ Done("aws.CreateVolumeFromSnapshot")
    /\ args.volumeType \notin iopsVolumeTypes
    /\ args.iops # Nil
    /\ calls[1].req.Iops = Nil

\* C5: aws GetVolumeInfo and IsVolumeReady return an error and zero values
\* when DescribeVolumes reports zero or several volumes, and return without
\* error only when it reports exactly one.
C5_ExactlyOneVolume ==
    (Done("aws.GetVolumeInfo") \/ Done("aws.IsVolumeReady")) =>
        LET c == calls[1]
        IN /\ (c.ok /\ Len(c.resp) # 1) =>
                /\ ret.err # Nil
                /\ ret.volumeType = ""
                /\ ret.iops = Nil
                /\ ret.ready = FALSE
           /\ ret.err = Nil => (c.ok /\ Len(c.resp) = 1)

C5_TwoVolumes ==
    /\ Done("aws.GetVolumeInfo")
    /\ calls[1].ok
    /\ Len(calls[1].resp) = 2
    /\ ret.err # Nil

IsFactory == op \in {"aws.NewBlockStorageAdapter", "gcp.NewBlockStorageAdapter"}

\* the required fields of the running factory call, in the order of its
\* parameters, as <<name, value>> pairs
FactoryFields ==
    IF op = "aws.NewBlockStorageAdapter"
      THEN <<(<<"region", args.region>>),
             (<<"availabilityZone", args.availabilityZone>>)>>
      ELSE <<(<<"project", args.project>>), (<<"zone", args.zone>>)>>

\* C6: a factory given an empty required field returns no adapter and an
\* error naming a missing field, without having made any session, client or
\* network call; a factory returns an adapter only when both fields were
\* non-empty and the zone check succeeded.
C6_ValidateBeforeCalls ==
    IsFactory =>
        /\ (\E i \in 1..2 : FactoryFields[i][2] = "") =>
              /\ pc = "done"
              /\ calls = <<>>
              /\ ret.adapter = Nil
              /\ ret.err # Nil
              /\ \E i \in 1..2 :
                    /\ FactoryFields[i][2] = ""
                    /\ Contains(Deref(ret.err), FactoryFields[i][1])
        /\ ret.adapter # Nil =>
              /\ pc = "done"
              /\ \A i \in 1..2 : FactoryFields[i][2] # ""
              /\ calls[Len(calls)].api \in {"ec2.DescribeAvailabilityZones", "Zones.Get"}
              /\ calls[Len(calls)].ok
              /\ calls[Len(calls)].resp # <<>>
              /\ ret.err = Nil

C6_MissingAZ ==
    /\ Done("aws.NewBlockStorageAdapter")
    /\ args.region # ""
    /\ args.availabilityZone = ""
    /\ calls = <<>>
    /\ ret.adapter = Nil
    /\ Contains(Deref(ret.err), "availabilityZone")

\* C7: the DescribeSnapshots request of aws ListSnapshots holds, for every
\* pair (k, v) of tagFilters, exactly one filter named k whose single value is
\* v, and no other filter.
C7_EachFilterOwnValue ==
    Done("aws.ListSnapshots") =>
        LET m == args.tagFilters
            f == calls[1].req.Filters
        IN /\ Len(f) = Cardinality(DOMAIN m)
           /\ \A k \in DOMAIN m :
                \E i \in DOMAIN f :
                    /\ f[i].Name = k
                    /\ f[i].Values = <<m[k]>>
                    /\ \A j \in DOMAIN f : f[j].Name = k => j = i

IsTagging(c) == c.api \in {"ec2.CreateTags", "Snapshots.SetLabels"}
IsDelete(c) == c.api \in {"ec2.DeleteSnapshot", "Snapshots.Delete"}

\* the snapshot the first step of the running CreateSnapshot created
CreatedSnapshot ==
    IF op = "aws.CreateSnapshot"
      THEN Deref(calls[1].resp).SnapshotId
      ELSE calls[1].req.snapshot.Name

\* C8: when the first step of CreateSnapshot succeeded and the tagging or
\* labeling call failed, the method returns a non-nil error, has issued no
\* delete call, and the snapshot still exists.
C8_SecondStepFailureReported ==
    (op \in {"aws.CreateSnapshot", "gcp.CreateSnapshot"}
        /\ \E i \in DOMAIN calls : IsTagging(calls[i]) /\ ~calls[i].ok) =>
            /\ pc = "done"
            /\ calls[1].ok
            /\ ret.err # Nil
            /\ \A i \in DOMAIN calls : ~IsDelete(calls[i])
            /\ CreatedSnapshot \in snapshots

C8_TaggingFailed ==
    /\ Done("aws.CreateSnapshot")
    /\ Len(calls) = 2
    /\ calls[1].ok
    /\ calls[2].api = "ec2.CreateTags"
    /\ ~calls[2].ok
    /\ ret.id \in snapshots

\* C9: a failed call other than a poll attempt is the last call of its method:
\* the method has returned that call's error and issued nothing after it.
C9_FailureEndsOperation ==
    \A i \in DOMAIN calls :
        (~calls[i].ok /\ ~IsPoll(calls[i])) =>
            /\ i = Len(calls)
            /\ pc = "done"
            /\ ret.err = CallError(calls[i].api)

C9_GetFailedNoInsert ==
    /\ Done("gcp.CreateVolumeFromSnapshot")
    /\ Len(calls) = 1
    /\ calls[1].api = "Snapshots.Get"
    /\ ~calls[1].ok
    /\ ret.err = CallError("Snapshots.Get")

\* what holds of the calls of gcp CreateSnapshot in every state
PollOrdered ==
    op = "gcp.CreateSnapshot" =>
        /\ calls[1].api = "Disks.CreateSnapshot"
        /\ \A i \in DOMAIN calls :
            /\ IsPoll(calls[i]) =>
                /\ calls[1].ok
                /\ \A j \in 2..i : IsPoll(calls[j])
                /\ calls[i].at = (i - 1) * 1
                /\ calls[i].at <= 30
                /\ calls[i].ok => \A j \in DOMAIN calls : j > i => ~IsPoll(calls[j])
                /\ (~calls[i].ok /\ calls[i].at < 30) =>
                      IF i < Len(calls) THEN IsPoll(calls[i + 1]) ELSE pc = "gcp.poll"
            /\ calls[i].api = "Snapshots.SetLabels" =>
                /\ i = Len(calls)
                /\ i > 1
                /\ IsPoll(calls[i - 1])
                /\ calls[i - 1].ok
                /\ calls[i].req.labels.LabelFingerprint
                      = Deref(calls[i - 1].resp).LabelFingerprint
                /\ calls[i].req.labels.Labels = args.tags
                /\ calls[i].req.snapshot = calls[1].req.snapshot.Name

\* C10: the poll loop of gcp CreateSnapshot attempts Snapshots.Get once a
\* second for at most 30 seconds, goes on after a failed attempt, stops at the
\* first success, and CreateSnapshot terminates; SetLabels is issued at most
\* once, only after a successful Get, with that Get's fingerprint and the
\* caller's tags.
C10_BoundedPoll ==
    /\ []PollOrdered
    /\ (op = "gcp.CreateSnapshot") ~> (pc = "done")

C10_LabeledAfterRetries ==
    /\ Done("gcp.CreateSnapshot")
    /\ Len(calls) = 5
    /\ ~calls[2].ok
    /\ ~calls[3].ok
    /\ calls[4].ok
    /\ calls[5].api = "Snapshots.SetLabels"
    /\ calls[5].req.labels.LabelFingerprint = "fp2"
    /\ DOMAIN args.tags # {}

====
